---- MODULE Spec2Model ----
(***************************************************************************)
(* A model of flair/nn/model.py: Model.save, Classifier.evaluate and       *)
(* DefaultClassifier (threshold setter, _calculate_loss, predict).         *)
(*                                                                         *)
(* Conventions.  Python lists are sequences (1-based here, 0-based in the  *)
(* source).  Strings that the code concatenates (label identifiers, the    *)
(* composite keys of evaluate) are sequences of one-character strings.     *)
(* Scores are fixed-point: logits in tenths, probabilities and thresholds  *)
(* in thousandths.  A data point is an object: its identity is its index   *)
(* in the caller's list, its content the record stored there.              *)
(***************************************************************************)
EXTENDS Integers, Sequences, FiniteSets, TLC

\* ------------------------------------------------------------------ bounds
\* longest list of data points handed to predict / evaluate
NPoints == 2
\* longest data point (len(sentence))
MaxLen == 2
\* largest mini_batch_size
MaxBatch == 2
\* number of optimizer steps taken between saves
MaxStep == 2
\* largest sentence_id a composite key is built for
MaxId == 10
\* longest label identifier a composite key is built for
MaxIdLen == 2

VARIABLES
    op,          \* which operation the state is the result of ("init" before any)
    thr,         \* DefaultClassifier._multi_label_threshold: [set, map]
    thrIn,       \* the value last assigned to multi_label_threshold
    thr0,        \* _multi_label_threshold before the last assignment
    raised,      \* whether the last operation raised
    multi_label, \* DefaultClassifier.multi_label
    pts,         \* the caller's list of data points (content of each object)
    labels,      \* per object: the labels stored under label_name / 'predicted'
    labels0,     \* labels as they were before the call
    args,        \* the arguments of the last predict / evaluate call
    ret,         \* what predict returned
    ev,          \* evaluate's locals at its end (all_spans, y_true, ...) and Result
    card,        \* self.model_card (hasattr, training_parameters)
    card0,       \* the model card before the last save
    file,        \* what torch.save wrote
    step,        \* state of the live optimizer / scheduler objects
    passes       \* the batches handed to forward_pass, in the order of the calls

vars == <<op, thr, thrIn, thr0, raised, multi_label, pts, labels, labels0, args, ret,
          ev, card, card0, file, step, passes>>

\* --------------------------------------------------------------- helpers
Range(s) == {s[i] : i \in 1..Len(s)}

RECURSIVE SumSeq(_)
SumSeq(s) == IF s = <<>> THEN 0 ELSE Head(s) + SumSeq(Tail(s))

RECURSIVE Concat(_)
Concat(ss) == IF ss = <<>> THEN <<>> ELSE Head(ss) \o Concat(Tail(ss))

\* F applied to the value of v, v being evaluated once (TLC evaluates a LET
\* definition anew at each use).
With(v, F(_)) == CHOOSE y \in {F(x) : x \in {v}} : TRUE

\* all sequences over S of length 0..n
SeqUpTo(S, n) == UNION {[1..k -> S] : k \in 0..n}

\* ------------------------------------------------------ label dictionary
\* self.label_dictionary of the classifier: index l_idx (1-based) -> item
LabelDictionary == <<"O", "PER", "LOC">>

get_item_for_index(l_idx) == LabelDictionary[l_idx]

IndexOf(seq, item) ==
    IF \E i \in 1..Len(seq) : seq[i] = item
    THEN CHOOSE i \in 1..Len(seq) : seq[i] = item /\ \A j \in 1..(i-1) : seq[j] # item
    ELSE 0

\* ------------------------------------------------------------ thresholds
\* A Python value assigned to multi_label_threshold.
\*   kind "float"   : a number (num, in thousandths)
\*   kind "dict"    : type(x) is dict, map: key -> number
\*   kind "dictsub" : an instance of a dict subclass (type(x) is not dict)
EmptyMap == [k \in {} |-> 0]

FloatVal(n) == [kind |-> "float", num |-> n, map |-> EmptyMap]

DictVal(m) == [kind |-> "dict", num |-> 0, map |-> m]

DictSubVal(m) == [kind |-> "dictsub", num |-> 0, map |-> m]

ThresholdKeys == {"default", "LOC"}

ThresholdNums == {500, 800}

ThresholdMaps == UNION {[K -> ThresholdNums] : K \in SUBSET ThresholdKeys}

ThresholdInputs ==
    {FloatVal(n) : n \in ThresholdNums}
    \cup {DictVal(m) : m \in ThresholdMaps}
    \cup {DictSubVal(m) : m \in ThresholdMaps}

Unset == [set |-> FALSE, map |-> [k \in {} |-> FloatVal(0)]]

\* A setter without the 'default' check: every dict is stored as given.
SetterNoCheck(old, x) ==
    IF x.kind = "dict"
    THEN [thr |-> [set |-> TRUE, map |-> [k \in DOMAIN x.map |-> FloatVal(x.map[k])]],
          raised |-> FALSE]
    ELSE [thr |-> [set |-> TRUE, map |-> [k \in {"default"} |-> x]], raised |-> FALSE]

\* The setter: the new value of _multi_label_threshold and whether it raised.
ThresholdSetter(old, x) ==
    IF x.kind = "dict"
    THEN IF "default" \in DOMAIN x.map
         THEN [thr |-> [set |-> TRUE,
                        map |-> [k \in DOMAIN x.map |-> FloatVal(x.map[k])]],
               raised |-> FALSE]
         ELSE [thr |-> old, raised |-> TRUE]
    ELSE [thr |-> [set |-> TRUE, map |-> [k \in {"default"} |-> x]], raised |-> FALSE]

\* A lookup that ignores per-class entries: the 'default' threshold for every class.
GetThresholdNoOverride(t, label_value) == t.map["default"].num

_get_label_threshold(t, label_value) ==
    IF label_value \in DOMAIN t.map
    THEN t.map[label_value].num
    ELSE t.map["default"].num

\* ------------------------------------------------------------ score rows
\* torch.sigmoid and exp on the logits the model uses (tenths -> thousandths).
Sigmoid(x) ==
    CASE x = -8 -> 310 [] x = 0 -> 500 [] x = 4 -> 599
      [] x = 8 -> 690 [] x = 14 -> 802 [] x = 20 -> 881

ExpMilli(x) ==
    CASE x = -8 -> 449 [] x = 0 -> 1000 [] x = 4 -> 1492
      [] x = 8 -> 2226 [] x = 14 -> 4055 [] x = 20 -> 7389

Softmax(row) ==
    LET e == [i \in 1..Len(row) |-> ExpMilli(row[i])]
    IN [i \in 1..Len(row) |-> (e[i] * 1000) \div SumSeq(e)]

\* torch.max(softmax, dim=-1): (value, index of the first maximal value)
ArgMax(p) ==
    CHOOSE i \in 1..Len(p) :
        /\ \A j \in 1..Len(p) : p[j] <= p[i]
        /\ \A j \in 1..(i-1) : p[j] < p[i]

\* The rows of logits forward_pass can produce for a point (over LabelDictionary).
ScoreRows == << <<20, 0, -8>>, <<-8, 4, 8>>, <<0, 14, 8>> >>

\* ------------------------------------------------------------ data points
\* A label: identifier and value are what evaluate reads, score what predict
\* writes, span whether it is a SpanLabel.
Label(identifier, value, score, span) ==
    [identifier |-> identifier, value |-> value, score |-> score, span |-> span]

\* A label stored under label_name by an earlier prediction.
OldLabel == Label(<<"s">>, "OLD", 1000, FALSE)

\* A data point: len(sentence); the row of ScoreRows forward_pass computes for
\* it (0: forward_pass finds no label candidate in it); the identifier of its
\* label candidate; its gold labels.
Point(len, row, cand_id, gold) ==
    [len |-> len, row |-> row, cand_id |-> cand_id, gold |-> gold]

\* ---------------------------------------------------------------- predict
\* A sort that puts a point ahead of the earlier points of its own length.
InsertUnstable(sorted, o, P) ==
    LET k == Cardinality({i \in 1..Len(sorted) : P[sorted[i]].len > P[o].len})
    IN SubSeq(sorted, 1, k) \o <<o>> \o SubSeq(sorted, k + 1, Len(sorted))

\* sorted(range(len(sentences)), key=len, reverse=True): Python's sort is
\* stable, also with reverse=True.  Insert o behind every element at least as
\* long as it.
InsertByLen(sorted, o, P) ==
    LET k == Cardinality({i \in 1..Len(sorted) : P[sorted[i]].len >= P[o].len})
    IN SubSeq(sorted, 1, k) \o <<o>> \o SubSeq(sorted, k + 1, Len(sorted))

RECURSIVE SortFold(_, _, _)
SortFold(ids, acc, P) ==
    IF ids = <<>> THEN acc
    ELSE With(InsertByLen(acc, Head(ids), P), LAMBDA a : SortFold(Tail(ids), a, P))

\* [sentence for sentence in sentences if len(sentence) > 0]
FilterEmpty(ids, P) ==
    LET NonEmpty(o) == P[o].len > 0
    IN SelectSeq(ids, NonEmpty)

reordered_sentences(ids, P) == SortFold(ids, <<>>, P)

\* DataLoader(dataset, batch_size): consecutive chunks, the last one shorter.
RECURSIVE Batches(_, _)
Batches(seq, batch_size) ==
    IF seq = <<>> THEN <<>>
    ELSE IF Len(seq) <= batch_size THEN <<seq>>
    ELSE <<SubSeq(seq, 1, batch_size)>>
         \o Batches(SubSeq(seq, batch_size + 1, Len(seq)), batch_size)

\* forward_pass(batch, return_label_candidates=True) of a concrete classifier:
\* one score row, gold-label list, data point and label candidate for every
\* point of the batch that holds a candidate, in batch order.
forward_pass(batch, P) ==
    LET HasCand(o) == P[o].row # 0
    IN With(SelectSeq(batch, HasCand), LAMBDA s :
        [scores |-> [i \in 1..Len(s) |-> ScoreRows[P[s[i]].row]],
         gold_labels |-> [i \in 1..Len(s) |->
                             [j \in 1..Len(P[s[i]].gold) |-> P[s[i]].gold[j].value]],
         sentences |-> s,
         label_candidates |-> [i \in 1..Len(s) |-> P[s[i]].cand_id]])

\* label_dictionary.get_idx_for_item: the item's index, index 0 (here 1) for an
\* item the dictionary does not hold.
get_idx_for_item(dict, item) ==
    IF IndexOf(dict, item) = 0 THEN 1 ELSE IndexOf(dict, item)

\* self.loss_function (torch's CrossEntropyLoss / BCEWithLogitsLoss, mean
\* reduction), as a fixed-point stand-in: the mean miss of the target.
loss_function(multi, scores, targets) ==
    IF multi
    THEN SumSeq([i \in 1..Len(scores) |->
                    SumSeq([l \in 1..Len(LabelDictionary) |->
                        IF targets[i][l] = 1 THEN 1000 - Sigmoid(scores[i][l])
                        ELSE Sigmoid(scores[i][l])])])
         \div (Len(scores) * Len(LabelDictionary))
    ELSE SumSeq([i \in 1..Len(scores) |-> 1000 - Softmax(scores[i])[targets[i]]])
         \div Len(scores)

\* _calculate_loss: (loss, count)
_calculate_loss(multi, scores, gold_labels) ==
    IF \A i \in 1..Len(gold_labels) : gold_labels[i] = <<>>
    THEN <<0, 1>>
    ELSE IF multi
    THEN <<loss_function(multi, scores,
              [i \in 1..Len(gold_labels) |->
                  [l \in 1..Len(LabelDictionary) |->
                      IF LabelDictionary[l] \in Range(gold_labels[i]) THEN 1 ELSE 0]]),
           Len(gold_labels)>>
    ELSE <<loss_function(multi, scores,
              [i \in 1..Len(gold_labels) |->
                  IF Len(gold_labels[i]) > 0
                  THEN get_idx_for_item(LabelDictionary, gold_labels[i][1])
                  ELSE get_idx_for_item(LabelDictionary, "O")]),
           Len(gold_labels)>>

\* The test of line 587, multi-label mode.
MultiKeep(cfg, label_value, label_score) ==
    label_score > _get_label_threshold(cfg.thr, label_value) \/ cfg.return_all

\* A single-label decision that also attaches the 'O' class.
SingleBestKeepO(row, cand_id) ==
    LET softmax == Softmax(row)
        idx == ArgMax(softmax)
    IN <<Label(cand_id, get_item_for_index(idx), softmax[idx], FALSE)>>

\* The labels one label candidate receives (lines 578-608), in the order
\* add_complex_label is called.
SingleBest(row, cand_id) ==
    LET softmax == Softmax(row)
        idx == ArgMax(softmax)
    IN IF get_item_for_index(idx) = "O" THEN <<>>
       ELSE <<Label(cand_id, get_item_for_index(idx), softmax[idx], FALSE)>>

SpawnedLabels(cfg, row, cand_id) ==
    LET n_labels == Len(row)
        sigmoided == [l \in 1..n_labels |-> Sigmoid(row[l])]
        softmax == Softmax(row)
        all == [l \in 1..n_labels |->
                   Label(cand_id, get_item_for_index(l),
                         IF cfg.multi_label THEN sigmoided[l] ELSE softmax[l], FALSE)]
        KeepMulti(lab) == lab.value # "O" /\ MultiKeep(cfg, lab.value, lab.score)
        NotO(lab) == lab.value # "O"
    IN IF cfg.multi_label THEN SelectSeq(all, KeepMulti)
       ELSE IF cfg.return_all THEN SelectSeq(all, NotO)
       ELSE SingleBest(row, cand_id)

\* Pairing the candidates with the batch's own data points, by position.
TargetInBatch(fp, batch, s_idx) == batch[s_idx]

\* The data point the s_idx-th candidate's labels are added to:
\* zip(sentences, label_candidates) over what forward_pass returned.
TargetOf(fp, batch, s_idx) == fp.sentences[s_idx]

RECURSIVE AttachFrom(_, _, _, _, _)
AttachFrom(s_idx, fp, batch, labs, cfg) ==
    IF s_idx > Len(fp.label_candidates) THEN labs
    ELSE LET o == TargetOf(fp, batch, s_idx)
             new == SpawnedLabels(cfg, fp.scores[s_idx], fp.label_candidates[s_idx])
         IN With([labs EXCEPT ![o] = labs[o] \o new],
                 LAMBDA l : AttachFrom(s_idx + 1, fp, batch, l, cfg))

\* One turn of the loop over the dataloader (lines 555-610).
\* st = [labels, overall_loss, label_count, passes]
PredictBatch(batch, st, P, cfg) ==
    With(<<[o \in DOMAIN st.labels |->
               IF o \in Range(batch) THEN <<>> ELSE st.labels[o]],
           forward_pass(batch, P)>>,
         LAMBDA rf :
            LET removed == rf[1]
                fp == rf[2]
                lc == _calculate_loss(cfg.multi_label, fp.scores, fp.gold_labels)
            IN [labels |-> IF Len(fp.label_candidates) > 0
                           THEN AttachFrom(1, fp, batch, removed, cfg)
                           ELSE removed,
                overall_loss |-> IF cfg.return_loss THEN st.overall_loss + lc[1]
                                 ELSE st.overall_loss,
                label_count |-> IF cfg.return_loss
                                THEN st.label_count + Len(fp.label_candidates)
                                ELSE st.label_count,
                passes |-> Append(st.passes, batch)])

RECURSIVE PredictLoop(_, _, _, _)
PredictLoop(batches, st, P, cfg) ==
    IF batches = <<>> THEN st
    ELSE With(PredictBatch(Head(batches), st, P, cfg),
              LAMBDA t : PredictLoop(Tail(batches), t, P, cfg))

\* What predict returns: the (emptied) list of sentences, the pair
\* (overall_loss, label_count), or None.
RetList(l) == [kind |-> "list", list |-> l, loss |-> 0, count |-> 0]

RetTuple(loss, count) == [kind |-> "tuple", list |-> <<>>, loss |-> loss, count |-> count]

RetNone == [kind |-> "none", list |-> <<>>, loss |-> 0, count |-> 0]

\* predict(sentences, ...) on the objects ids (a list of indices into P) with
\* the labels labs stored under label_name: [labels, ret, passes].
\* cfg = [multi_label, thr, mini_batch_size, return_all, return_loss]
predict(ids, P, labs, cfg) ==
    IF ids = <<>> THEN [labels |-> labs, ret |-> RetList(ids), passes |-> <<>>]
    ELSE With(FilterEmpty(ids, P), LAMBDA sentences :
            IF Len(sentences) = 0
            THEN [labels |-> labs, ret |-> RetList(sentences), passes |-> <<>>]
            ELSE With(Batches(reordered_sentences(sentences, P), cfg.mini_batch_size),
                      LAMBDA dataloader :
                 With(PredictLoop(dataloader,
                                  [labels |-> labs, overall_loss |-> 0,
                                   label_count |-> 0, passes |-> <<>>],
                                  P, cfg),
                      LAMBDA st :
                        [labels |-> st.labels,
                         ret |-> IF cfg.return_loss
                                 THEN RetTuple(st.overall_loss, st.label_count)
                                 ELSE RetNone,
                         passes |-> st.passes])))

\* ------------------------------------------------- states of the other parts
NoArgs == [multi_label |-> FALSE, thr |-> Unset, mini_batch_size |-> 0,
           return_all |-> FALSE, return_loss |-> FALSE]

NoEval == [done |-> FALSE]

NoCard == [has |-> FALSE]

NoFile == [written |-> FALSE]

\* ------------------------------------------------------- predict: the calls
\* The gold labels of the points predict is called with.
DefaultGold(row) ==
    CASE row = 2 -> <<Label(<<"s">>, "PER", 1000, FALSE)>>
      [] row = 3 -> <<Label(<<"s">>, "LOC", 1000, FALSE)>>
      [] OTHER -> <<>>

\* A point of length 0 is dropped before forward_pass: it has no row.
PredictPoints ==
    {Point(0, 0, <<"s">>, <<>>)}
    \cup {Point(l, r, <<"s">>, DefaultGold(r)) : l \in 1..MaxLen, r \in 0..Len(ScoreRows)}

\* The threshold configurations predict runs under (scenario 3 among them).
PredictThresholdInputs ==
    {FloatVal(500), DictVal([k \in {"default", "LOC"} |->
                                IF k = "LOC" THEN 800 ELSE 500])}

Ids(P) == [i \in 1..Len(P) |-> i]

InitPredict ==
    /\ op = "init"
    /\ multi_label \in BOOLEAN
    /\ thrIn \in PredictThresholdInputs
    /\ thr = ThresholdSetter(Unset, thrIn).thr
    /\ thr0 = Unset
    /\ raised = FALSE
    /\ pts \in SeqUpTo(PredictPoints, NPoints)
    /\ labels \in {[o \in 1..Len(pts) |-> <<>>], [o \in 1..Len(pts) |-> <<OldLabel>>]}
    /\ labels0 = labels
    /\ args = NoArgs
    /\ ret = RetNone
    /\ ev = NoEval
    /\ card = NoCard
    /\ card0 = NoCard
    /\ file = NoFile
    /\ step = 0
    /\ passes = <<>>

PredictCall ==
    /\ op = "init"
    /\ \E mbs \in 1..MaxBatch, return_all \in BOOLEAN, return_loss \in BOOLEAN :
        \E cfg \in {[multi_label |-> multi_label, thr |-> thr, mini_batch_size |-> mbs,
                      return_all |-> return_all, return_loss |-> return_loss]} :
        \E r \in {predict(Ids(pts), pts, labels, cfg)} :
           /\ op' = "predict"
           /\ args' = cfg
           /\ labels0' = labels
           /\ labels' = r.labels
           /\ ret' = r.ret
           /\ raised' = FALSE
           /\ passes' = r.passes
    /\ UNCHANGED <<thr, thrIn, thr0, multi_label, pts, ev, card, card0, file, step>>

NextPredict == PredictCall

SpecPredict == InitPredict /\ [][NextPredict]_vars

\* predict called for its labels alone (return_loss off, no labels of an
\* earlier prediction on the points): the calls the order of the list is
\* compared on.
InitPermute == InitPredict /\ labels = [o \in 1..Len(pts) |-> <<>>]

PredictLabels == PredictCall /\ ~args'.return_loss

SpecPermute == InitPermute /\ [][PredictLabels]_vars

\* ------------------------------------------- multi_label_threshold: the calls
\* Before construction: no classifier, no threshold mapping.
InitThreshold ==
    /\ op = "init"
    /\ multi_label = FALSE
    /\ thr = Unset
    /\ thr0 = Unset
    /\ thrIn = FloatVal(500)
    /\ raised = FALSE
    /\ pts = <<>>
    /\ labels = <<>>
    /\ labels0 = <<>>
    /\ args = NoArgs
    /\ ret = RetNone
    /\ ev = NoEval
    /\ card = NoCard
    /\ card0 = NoCard
    /\ file = NoFile
    /\ step = 0
    /\ passes = <<>>

\* DefaultClassifier.__init__(label_dictionary, multi_label, multi_label_threshold):
\* line 451 runs the setter; when it raises, no classifier comes to be.
Construct ==
    /\ op = "init"
    /\ \E m \in BOOLEAN, x \in ThresholdInputs :
        LET r == ThresholdSetter(thr, x)
        IN /\ op' = "construct"
           /\ multi_label' = m
           /\ thrIn' = x
           /\ thr0' = thr
           /\ thr' = r.thr
           /\ raised' = r.raised
    /\ UNCHANGED <<pts, labels, labels0, args, ret, ev, card, card0, file, step,
                   passes>>

\* classifier.multi_label_threshold = x on a constructed classifier.
Assign ==
    /\ thr.set
    /\ \E x \in ThresholdInputs :
        LET r == ThresholdSetter(thr, x)
        IN /\ op' = "assign"
           /\ thrIn' = x
           /\ thr0' = thr
           /\ thr' = r.thr
           /\ raised' = r.raised
    /\ UNCHANGED <<multi_label, pts, labels, labels0, args, ret, ev, card, card0,
                   file, step, passes>>

NextThreshold == Construct \/ Assign

SpecThreshold == InitThreshold /\ [][NextThreshold]_vars

\* ---------------------------------------------------------------- Model.save
\* Values of the model card's training_parameters.
\*   LiveObj(n)    the live optimizer / scheduler object n (truthy: torch's
\*                 optimizers and schedulers define neither __bool__ nor __len__)
\*   ClassOf(n)    n.__class__
\*   StateDict(n, t)  n.state_dict() taken when the object was at step t
\*   Plain(v)      any other entry
LiveObj(n) == [kind |-> "object", name |-> n, at |-> 0]

ClassOf(n) == [kind |-> "class", name |-> n, at |-> 0]

StateDict(n, t) == [kind |-> "state_dict", name |-> n, at |-> t]

Plain(v) == [kind |-> "plain", name |-> "", at |-> v]

Put(f, k, v) == [x \in DOMAIN f \cup {k} |-> IF x = k THEN v ELSE f[x]]

\* self.model_card: has (hasattr(self, 'model_card')), tp_in
\* ('training_parameters' in self.model_card), tp (that mapping).
Card(has, tp_in, tp) == [has |-> has, tp_in |-> tp_in, tp |-> tp]

\* Lines 94-97 and 99-102 for one of 'optimizer', 'scheduler': the mapping
\* afterwards, the local variable (None: kind "none"), whether the call of
\* state_dict raised (the entry is no live object).
None == [kind |-> "none", name |-> "", at |-> 0]

Remember(tp, key, t) ==
    IF key \notin DOMAIN tp THEN [tp |-> tp, local |-> None, raised |-> FALSE]
    ELSE IF tp[key].kind # "object" THEN [tp |-> tp, local |-> None, raised |-> TRUE]
    ELSE [tp |-> Put(Put(tp, key \o "_state_dict", StateDict(tp[key].name, t)),
                     key, ClassOf(tp[key].name)),
          local |-> tp[key],
          raised |-> FALSE]

\* A save that leaves the classes in the card: nothing is put back.
NoRestore(tp, key, local) == tp

\* Lines 110-113 for one of them.
Restore(tp, key, local) ==
    IF local.kind # "none" THEN Put(tp, key, local) ELSE tp

\* save(model_file) on the card c with the live objects at step t; write_ok:
\* whether torch.save succeeds.  [card, file, raised]
save(c, t, write_ok) ==
    IF ~(c.has /\ c.tp_in)
    THEN [card |-> c,
          file |-> IF write_ok THEN [written |-> TRUE, card |-> c] ELSE NoFile,
          raised |-> ~write_ok]
    ELSE LET o == Remember(c.tp, "optimizer", t)
             s == Remember(o.tp, "scheduler", t)
             during == [c EXCEPT !.tp = s.tp]
         IN IF o.raised THEN [card |-> c, file |-> NoFile, raised |-> TRUE]
            ELSE IF s.raised
            THEN [card |-> [c EXCEPT !.tp = o.tp], file |-> NoFile, raised |-> TRUE]
            ELSE IF ~write_ok
            THEN [card |-> during, file |-> NoFile, raised |-> TRUE]
            ELSE [card |-> [c EXCEPT !.tp =
                               Restore(Restore(s.tp, "optimizer", o.local),
                                       "scheduler", s.local)],
                  file |-> [written |-> TRUE, card |-> during],
                  raised |-> FALSE]

CardKeys == {"optimizer", "scheduler", "learning_rate"}

InitialEntry(k) ==
    CASE k = "optimizer" -> LiveObj("optimizer")
      [] k = "scheduler" -> LiveObj("scheduler")
      [] OTHER -> Plain(1)

InitSave ==
    /\ op = "init"
    /\ multi_label = FALSE
    /\ thrIn = FloatVal(500)
    /\ thr = ThresholdSetter(Unset, thrIn).thr
    /\ thr0 = Unset
    /\ raised = FALSE
    /\ pts = <<>>
    /\ labels = <<>>
    /\ labels0 = <<>>
    /\ args = NoArgs
    /\ ret = RetNone
    /\ ev = NoEval
    /\ \E has \in BOOLEAN, tp_in \in BOOLEAN, K \in SUBSET CardKeys :
          /\ (~has => ~tp_in)
          /\ (~tp_in => K = {})
          /\ card = Card(has, tp_in, [k \in K |-> InitialEntry(k)])
    /\ card0 = card
    /\ file = NoFile
    /\ step = 0
    /\ passes = <<>>

\* model.save(model_file)
Save ==
    /\ \E write_ok \in BOOLEAN :
        LET r == save(card, step, write_ok)
        IN /\ op' = "save"
           /\ card0' = card
           /\ card' = r.card
           /\ file' = r.file
           /\ raised' = r.raised
    /\ UNCHANGED <<thr, thrIn, thr0, multi_label, pts, labels, labels0, args, ret, ev,
                   step, passes>>

\* One more step of training: the live optimizer and scheduler move on.
TrainStep ==
    /\ step < MaxStep
    /\ op' = "step"
    /\ step' = step + 1
    /\ raised' = FALSE
    /\ UNCHANGED <<thr, thrIn, thr0, multi_label, pts, labels, labels0, args, ret, ev,
                   card, card0, file, passes>>

NextSave == Save \/ TrainStep

SpecSave == InitSave /\ [][NextSave]_vars

\* ------------------------------------------------------ Classifier.evaluate
DigitChars == <<"0", "1", "2", "3", "4", "5", "6", "7", "8", "9">>

\* str(n) for n >= 0
RECURSIVE Str(_)
Str(n) ==
    IF n < 10 THEN <<DigitChars[n + 1]>>
    ELSE Str(n \div 10) \o <<DigitChars[(n % 10) + 1]>>

\* A key without the ': ' between the id and the identifier.
KeyNoSeparator(sentence_id, identifier) == Str(sentence_id) \o identifier

\* str(sentence_id) + ': ' + label.identifier
Representation(sentence_id, identifier) ==
    Str(sentence_id) \o <<":", " ">> \o identifier

\* gold_label_dictionary: none, or a Dictionary with <unk> at index 0.
NoDictionary == <<>>

GoldDictionary == <<"<unk>", "PER", "LOC">>

\* lines 234-236
GoldValue(value, gold_label_dictionary) ==
    IF gold_label_dictionary # NoDictionary
       /\ get_idx_for_item(gold_label_dictionary, value) = 1
    THEN "<unk>"
    ELSE value

\* A dict in insertion order: keys (a list) and vals (key -> list of values).
EmptyDict == [keys |-> <<>>, vals |-> [k \in {} |-> <<>>]]

\* lines 238-241 / 252-255
AddValue(d, key, value) ==
    IF key \in DOMAIN d.vals
    THEN [d EXCEPT !.vals[key] = Append(@, value)]
    ELSE [keys |-> Append(d.keys, key), vals |-> Put(d.vals, key, <<value>>)]

\* lines 243-244 / 257-258
AddSpan(all_spans, key) ==
    IF key \in Range(all_spans) THEN all_spans ELSE Append(all_spans, key)

\* A flag that follows the label read last instead of staying set.
LastLabelDecides(is_word_level, gold_label) == gold_label.span

\* line 246: if type(gold_label) == SpanLabel: is_word_level = True
MarkWordLevel(is_word_level, gold_label) == is_word_level \/ gold_label.span

\* The loop over a data point's gold labels (lines 231-246).
RECURSIVE GoldLoop(_, _, _)
GoldLoop(gold, e, gold_label_dictionary) ==
    IF gold = <<>> THEN e
    ELSE LET gold_label == Head(gold)
             representation == Representation(e.sentence_id, gold_label.identifier)
             value == GoldValue(gold_label.value, gold_label_dictionary)
         IN With([e EXCEPT !.all_true_values = AddValue(@, representation, value),
                           !.all_spans = AddSpan(@, representation),
                           !.is_word_level = MarkWordLevel(@, gold_label)],
                 LAMBDA f : GoldLoop(Tail(gold), f, gold_label_dictionary))

\* The loop over its predicted labels (lines 248-258).
RECURSIVE PredictedLoop(_, _)
PredictedLoop(predicted, e) ==
    IF predicted = <<>> THEN e
    ELSE LET predicted_span == Head(predicted)
             representation == Representation(e.sentence_id, predicted_span.identifier)
         IN With([e EXCEPT !.all_predicted_values =
                               AddValue(@, representation, predicted_span.value),
                           !.all_spans = AddSpan(@, representation)],
                 LAMBDA f : PredictedLoop(Tail(predicted), f))

\* A loop that never advances sentence_id: all data points share the id 0.
SameSentenceId(e) == e

\* line 260
NextSentenceId(e) == [e EXCEPT !.sentence_id = @ + 1]

\* The loop over the data points of a batch (lines 229-260).
RECURSIVE DatapointLoop(_, _, _, _, _)
DatapointLoop(batch, e, P, labs, gold_label_dictionary) ==
    IF batch = <<>> THEN e
    ELSE LET o == Head(batch)
         IN With(GoldLoop(P[o].gold, e, gold_label_dictionary), LAMBDA g :
            With(NextSentenceId(PredictedLoop(labs[o], g)), LAMBDA q :
                DatapointLoop(Tail(batch), q, P, labs, gold_label_dictionary)))

\* The printout lines of a batch (lines 265-310), when out_path is set: for
\* every data point of the batch, in order, a word-level (BIO) rendering if
\* is_word_level and a block (text, gold, predicted, mismatch) otherwise.
RECURSIVE RenderBatch(_, _, _)
RenderBatch(batch, e, out_path) ==
    IF ~out_path \/ batch = <<>> THEN e
    ELSE With([e EXCEPT !.lines = Append(@, [point |-> Head(batch),
                                             word_level |-> e.is_word_level])],
              LAMBDA f : RenderBatch(Tail(batch), f, out_path))

\* One turn of the loop over data_loader (lines 209-310).  predict returning
\* something that is no tuple is added to eval_loss (line 226): for the list
\* predict returns at line 540 that raises TypeError.
EvaluateBatch(batch, e, P, cfg, gold_label_dictionary, out_path) ==
    With(predict(batch, P,
                 [o \in DOMAIN e.labels |->
                     IF o \in Range(batch) THEN <<>> ELSE e.labels[o]],
                 cfg),
         LAMBDA r :
            IF r.ret.kind # "tuple"
            THEN [e EXCEPT !.labels = r.labels, !.raised = TRUE,
                           !.passes = @ \o r.passes]
            ELSE With(DatapointLoop(batch,
                                    [e EXCEPT !.labels = r.labels,
                                              !.passes = @ \o r.passes,
                                              !.average_over = @ + r.ret.count,
                                              !.eval_loss = @ + r.ret.loss],
                                    P, r.labels, gold_label_dictionary),
                      LAMBDA read : RenderBatch(batch, read, out_path)))

RECURSIVE EvaluateLoop(_, _, _, _, _, _)
EvaluateLoop(batches, e, P, cfg, gold_label_dictionary, out_path) ==
    IF batches = <<>> \/ e.raised THEN e
    ELSE With(EvaluateBatch(Head(batches), e, P, cfg, gold_label_dictionary, out_path),
              LAMBDA f : EvaluateLoop(Tail(batches), f, P, cfg, gold_label_dictionary,
                                      out_path))

\* Dictionary.add_item
add_item(dict, item) == IF item \in Range(dict) THEN dict ELSE Append(dict, item)

RECURSIVE AddItems(_, _)
AddItems(dict, items) ==
    IF items = <<>> THEN dict
    ELSE With(add_item(dict, Head(items)), LAMBDA d : AddItems(d, Tail(items)))

\* itertools.chain.from_iterable(d.values())
AllValues(d) == Concat([i \in 1..Len(d.keys) |-> d.vals[d.keys[i]]])

\* lines 318-325
evaluation_label_dictionary(all_true_values, all_predicted_values) ==
    AddItems(AddItems(<<"O">>, AllValues(all_true_values)),
             AllValues(all_predicted_values))

\* An indicator row without the ['O'] default: all zeros for a key with no value.
IndicatorNoDefault(d, span, dict) ==
    LET values == IF span \in DOMAIN d.vals THEN d.vals[span] ELSE <<>>
    IN [i \in 1..Len(dict) |->
           IF \E j \in 1..Len(values) : get_idx_for_item(dict, values[j]) = i
           THEN 1 ELSE 0]

\* lines 333-344: the indicator row of a key's values (['O'] if it has none)
Indicator(d, span, dict) ==
    LET values == IF span \in DOMAIN d.vals THEN d.vals[span] ELSE <<"O">>
    IN [i \in 1..Len(dict) |->
           IF \E j \in 1..Len(values) : get_idx_for_item(dict, values[j]) = i
           THEN 1 ELSE 0]

\* Counter(...).most_common(): distinct values, most frequent first, values
\* of equal count in the order they were first counted.
CountOf(vals, v) == Cardinality({i \in 1..Len(vals) : vals[i] = v})

InsertByCount(sorted, v, vals) ==
    LET k == Cardinality({i \in 1..Len(sorted) :
                             CountOf(vals, sorted[i]) >= CountOf(vals, v)})
    IN SubSeq(sorted, 1, k) \o <<v>> \o SubSeq(sorted, k + 1, Len(sorted))

RECURSIVE CountFold(_, _, _)
CountFold(distinct, acc, vals) ==
    IF distinct = <<>> THEN acc
    ELSE With(InsertByCount(acc, Head(distinct), vals),
              LAMBDA a : CountFold(Tail(distinct), a, vals))

most_common(vals) == CountFold(AddItems(<<>>, vals), <<>>, vals)

\* lines 354-358
target_names(all_true_values, all_predicted_values, exclude_labels) ==
    LET Scored_(v) == v # "O" /\ v \notin exclude_labels
    IN SelectSeq(most_common(AllValues(all_true_values)
                             \o AllValues(all_predicted_values)), Scored_)

\* sklearn.metrics on the indicator rows, for the class at index c.
TruePositives(y_true, y_pred, c) ==
    Cardinality({k \in 1..Len(y_true) : y_true[k][c] = 1 /\ y_pred[k][c] = 1})

FalsePositives(y_true, y_pred, c) ==
    Cardinality({k \in 1..Len(y_true) : y_true[k][c] = 0 /\ y_pred[k][c] = 1})

FalseNegatives(y_true, y_pred, c) ==
    Cardinality({k \in 1..Len(y_true) : y_true[k][c] = 1 /\ y_pred[k][c] = 0})

\* round(num / den, 4) in ten-thousandths; zero_division=0
Round4(num, den) == IF den = 0 THEN 0 ELSE (20000 * num + den) \div (2 * den)

\* A float kept exactly: num / den (0 when den = 0, zero_division=0).
Fraction(num, den) == IF den = 0 THEN <<0, 1>> ELSE <<num, den>>

\* lines 362-377: classification_report and accuracy_score
MetricsOf(names, tp, fp, fn) ==
    LET f1 == [i \in 1..Len(names) |-> Round4(2 * tp[i], 2 * tp[i] + fp[i] + fn[i])]
    IN [main_score |-> Fraction(2 * SumSeq(tp), 2 * SumSeq(tp) + SumSeq(fp) + SumSeq(fn)),
        precision_score |-> Round4(SumSeq(tp), SumSeq(tp) + SumSeq(fp)),
        recall_score |-> Round4(SumSeq(tp), SumSeq(tp) + SumSeq(fn)),
        micro_f_score |-> Round4(2 * SumSeq(tp), 2 * SumSeq(tp) + SumSeq(fp) + SumSeq(fn)),
        macro_f_score |-> IF Len(names) = 0 THEN 0 ELSE SumSeq(f1) \div Len(names),
        classification_report_dict |->
            [n \in Range(names) |->
                LET i == IndexOf(names, n)
                IN [precision |-> Round4(tp[i], tp[i] + fp[i]),
                    recall |-> Round4(tp[i], tp[i] + fn[i]),
                    f1 |-> f1[i],
                    support |-> tp[i] + fn[i]]]]

Metrics(y_true, y_pred, names, dict) ==
    With([i \in 1..Len(names) |-> get_idx_for_item(dict, names[i])], LAMBDA idx :
    With(<<[i \in 1..Len(names) |-> TruePositives(y_true, y_pred, idx[i])],
           [i \in 1..Len(names) |-> FalsePositives(y_true, y_pred, idx[i])],
           [i \in 1..Len(names) |-> FalseNegatives(y_true, y_pred, idx[i])]>>,
         LAMBDA c :
    With(MetricsOf(names, c[1], c[2], c[3]), LAMBDA m :
        [branch |-> "metrics",
         main_score |-> m.main_score,
         precision_score |-> m.precision_score,
         recall_score |-> m.recall_score,
         micro_f_score |-> m.micro_f_score,
         macro_f_score |-> m.macro_f_score,
         accuracy_score |-> Round4(Cardinality({k \in 1..Len(y_true) :
                                                   y_true[k] = y_pred[k]}),
                                   Len(y_true)),
         classification_report_dict |-> m.classification_report_dict])))

\* lines 379-386
ZeroScores ==
    [branch |-> "fallback",
     main_score |-> <<0, 1>>,
     precision_score |-> 0,
     recall_score |-> 0,
     micro_f_score |-> 0,
     macro_f_score |-> 0,
     accuracy_score |-> 0,
     classification_report_dict |->
         [n \in {} |-> [precision |-> 0, recall |-> 0, f1 |-> 0, support |-> 0]]]

\* line 361
MoreThanOneKey(all_true_values, all_predicted_values) ==
    Len(all_true_values.keys) + Len(all_predicted_values.keys) > 1

\* A result that reports the accumulated loss as it is, never divided.
RawLoss(eval_loss, average_over) == <<eval_loss, 1>>

\* lines 400-401: eval_loss /= average_over if average_over > 0.  The loss is
\* kept as the fraction <<numerator, denominator>>.
MeanLoss(eval_loss, average_over) ==
    IF average_over > 0 THEN <<eval_loss, average_over>> ELSE <<eval_loss, 1>>

\* evaluate(data_points, gold_label_type, mini_batch_size=..., exclude_labels=...,
\* gold_label_dictionary=...) with the default main_evaluation_metric, on the
\* data points P carrying the labels labs under 'predicted'.
\* cfg = [multi_label, thr, mini_batch_size, return_all, return_loss]
Scoring(e, dict, exclude_labels) ==
    With(<<[k \in 1..Len(e.all_spans) |->
               Indicator(e.all_true_values, e.all_spans[k], dict)],
           [k \in 1..Len(e.all_spans) |->
               Indicator(e.all_predicted_values, e.all_spans[k], dict)],
           target_names(e.all_true_values, e.all_predicted_values, exclude_labels)>>,
         LAMBDA y :
            [done |-> TRUE,
             raised |-> e.raised,
             labels |-> e.labels,
             loop |-> e,
             dict |-> dict,
             y_true |-> y[1],
             y_pred |-> y[2],
             target_names |-> y[3],
             result |-> IF MoreThanOneKey(e.all_true_values, e.all_predicted_values)
                        THEN Metrics(y[1], y[2], y[3], dict)
                        ELSE ZeroScores,
             loss |-> MeanLoss(e.eval_loss, e.average_over)])

evaluate(P, labs, cfg, exclude_labels, gold_label_dictionary, out_path) ==
    With(EvaluateLoop(Batches(Ids(P), cfg.mini_batch_size),
                      [eval_loss |-> 0, average_over |-> 0,
                       is_word_level |-> FALSE, lines |-> <<>>,
                       all_spans |-> <<>>, all_true_values |-> EmptyDict,
                       all_predicted_values |-> EmptyDict, sentence_id |-> 0,
                       labels |-> labs, raised |-> FALSE, passes |-> <<>>],
                      P, cfg, gold_label_dictionary, out_path),
         LAMBDA e :
    With(evaluation_label_dictionary(e.all_true_values, e.all_predicted_values),
         LAMBDA dict : Scoring(e, dict, exclude_labels)))

\* ------------------------------------------------------ evaluate: the calls
Gold(identifier, value) == Label(identifier, value, 1000, FALSE)

SpanGold(identifier, value) == Label(identifier, value, 1000, TRUE)

\* The gold labels of a point: none; one; two of one identifier (multi-label);
\* a span label, of an identifier predict never labels; one whose value the
\* gold label dictionary does not hold.
GoldChoices ==
    { <<>>,
      <<Gold(<<"s">>, "PER")>>,
      <<Gold(<<"s">>, "PER"), Gold(<<"s">>, "LOC")>>,
      <<SpanGold(<<"t">>, "LOC")>>,
      <<Gold(<<"s">>, "MISC")>> }

\* A point of length 0 has no tokens, so no span label.
EmptyGoldChoices == { <<>>, <<Gold(<<"s">>, "PER")>> }

EvalPoints ==
    {Point(0, 0, <<"s">>, g) : g \in EmptyGoldChoices}
    \cup {Point(1, r, <<"s">>, g) : r \in 0..Len(ScoreRows), g \in GoldChoices}

\* Every point comes with a label of an earlier prediction under 'predicted'.
InitEvaluate ==
    /\ op = "init"
    /\ multi_label \in BOOLEAN
    /\ thrIn = FloatVal(500)
    /\ thr = ThresholdSetter(Unset, thrIn).thr
    /\ thr0 = Unset
    /\ raised = FALSE
    /\ pts \in SeqUpTo(EvalPoints, NPoints)
    /\ labels = [o \in 1..Len(pts) |-> <<OldLabel>>]
    /\ labels0 = labels
    /\ args = NoArgs
    /\ ret = RetNone
    /\ ev = NoEval
    /\ card = NoCard
    /\ card0 = NoCard
    /\ file = NoFile
    /\ step = 0
    /\ passes = <<>>

EvaluateCall(out_path) ==
    /\ op = "init"
    /\ \E mbs \in 1..MaxBatch, gold_label_dictionary \in {NoDictionary, GoldDictionary} :
        \E r \in {evaluate(pts, labels,
                            [multi_label |-> multi_label, thr |-> thr,
                             mini_batch_size |-> mbs, return_all |-> FALSE,
                             return_loss |-> TRUE],
                            {}, gold_label_dictionary, out_path)} :
           /\ op' = "evaluate"
           /\ args' = [multi_label |-> multi_label, thr |-> thr,
                       mini_batch_size |-> mbs, return_all |-> FALSE,
                       return_loss |-> TRUE,
                       gold_label_dictionary |-> gold_label_dictionary,
                       out_path |-> out_path]
           /\ labels0' = labels
           /\ labels' = r.labels
           /\ ev' = r
           /\ raised' = r.raised
           /\ passes' = r.loop.passes
    /\ UNCHANGED <<thr, thrIn, thr0, multi_label, pts, ret, card, card0, file, step>>

\* evaluate without out_path.
Evaluate == EvaluateCall(FALSE)

NextEvaluate == Evaluate

SpecEvaluate == InitEvaluate /\ [][NextEvaluate]_vars

\* evaluate with out_path set: the printout lines are made and written.
EvaluateToFile == EvaluateCall(TRUE)

SpecRender == InitEvaluate /\ [][EvaluateToFile]_vars

\* ------------------------------------------------- the composite key alone
\* Identifiers made of a digit, the characters of the separator and a letter.
IdChars == {"0", ":", " ", "s"}

KeyIdentifiers == SeqUpTo(IdChars, MaxIdLen)

\* Two labels on two data points of one call: the sentence_id each point has
\* when its labels are read (sentence_id grows by one per point, line 260)
\* and the identifier of each label.
InitKey ==
    /\ op = "init"
    /\ multi_label = FALSE
    /\ thrIn = FloatVal(500)
    /\ thr = Unset
    /\ thr0 = Unset
    /\ raised = FALSE
    /\ pts = <<>>
    /\ labels = <<>>
    /\ labels0 = <<>>
    /\ \E i \in 0..MaxId, j \in 0..MaxId, a \in KeyIdentifiers, b \in KeyIdentifiers :
          /\ i < j
          /\ args = [sentence_id |-> <<i, j>>, identifier |-> <<a, b>>]
    /\ ret = RetNone
    /\ ev = NoEval
    /\ card = NoCard
    /\ card0 = NoCard
    /\ file = NoFile
    /\ step = 0
    /\ passes = <<>>

\* Lines 232 / 249 for the two labels.
BuildKeys ==
    /\ op = "init"
    /\ op' = "keys"
    /\ ev' = [done |-> FALSE,
              representation |->
                  [n \in 1..2 |-> Representation(args.sentence_id[n],
                                                 args.identifier[n])]]
    /\ UNCHANGED <<thr, thrIn, thr0, raised, multi_label, pts, labels, labels0, args,
                   ret, card, card0, file, step, passes>>

SpecKey == InitKey /\ [][BuildKeys]_vars

\* ================================================================ claims
\* --- predict -----------------------------------------------------------
PredictDone == op = "predict"

\* The points of the call forward_pass produced a label candidate for.
Scored(o) == pts[o].len > 0 /\ pts[o].row # 0

\* The threshold of class c as the value assigned to multi_label_threshold
\* gives it.
ThresholdOfInput(x, c) ==
    IF x.kind = "dict"
    THEN IF c \in DOMAIN x.map THEN x.map[c] ELSE x.map["default"]
    ELSE x.num

ValuesOf(labs) == {labs[i].value : i \in 1..Len(labs)}

ListOrders(n) == {f \in [1..n -> 1..n] : \A i, j \in 1..n : f[i] = f[j] => i = j}

\* C3: every predict call with return_loss on a non-empty list returns the
\* pair (accumulated loss, accumulated label-candidate count), also when every
\* point of the list has zero length.
C3_ReturnsLossAndCount ==
    (PredictDone /\ args.return_loss /\ Len(pts) > 0)
        => /\ ret.kind = "tuple"
           /\ ret.count = Cardinality({o \in 1..Len(pts) : Scored(o)})

\* C4: the labels a point carries after predict depend only on the point's
\* own score row: they are the labels spawned from its row, whatever the
\* order of the input list and the mini_batch_size (both range over all
\* their values in the calls), and predict on any permutation of the list
\* leaves every object with the same labels.
C4_PermutationInvariant ==
    PredictDone =>
        /\ \A o \in 1..Len(pts) :
              labels[o] = IF Scored(o)
                          THEN SpawnedLabels(args, ScoreRows[pts[o].row], pts[o].cand_id)
                          ELSE <<>>
        /\ \A perm \in ListOrders(Len(pts)) :
              predict(perm, pts, labels0, args).labels = labels

\* C4 witness: two points of different rows, the shorter first, so that the
\* sort swaps them, each in a batch of its own, each given its own labels.
C4_Witness ==
    /\ PredictDone
    /\ Len(pts) = 2
    /\ pts[1].len = 1 /\ pts[2].len = 2
    /\ pts[1].row = 2 /\ pts[2].row = 3
    /\ ~args.multi_label /\ ~args.return_all
    /\ args.mini_batch_size = 1
    /\ ValuesOf(labels[1]) = {"LOC"} /\ ValuesOf(labels[2]) = {"PER"}

\* C6: in multi-label mode a scored point carries a label of class c exactly
\* when c is not "O" and its sigmoid score exceeds c's threshold (the override
\* if the mapping has one, else the default) or all probabilities were asked
\* for; thresholds {default: 0.5, LOC: 0.8} with PER 0.6, LOC 0.7 give {PER}.
C6_MultiLabelThreshold ==
    (PredictDone /\ args.multi_label) =>
        \A o \in 1..Len(pts) :
            Scored(o) =>
                /\ \A l \in 1..Len(LabelDictionary) :
                      (LabelDictionary[l] \in ValuesOf(labels[o]))
                          <=> /\ LabelDictionary[l] # "O"
                              /\ \/ Sigmoid(ScoreRows[pts[o].row][l])
                                        > ThresholdOfInput(thrIn, LabelDictionary[l])
                                 \/ args.return_all
                /\ \A i \in 1..Len(labels[o]) :
                      labels[o][i].score
                          = Sigmoid(ScoreRows[pts[o].row]
                                        [IndexOf(LabelDictionary, labels[o][i].value)])
                /\ (thrIn.kind = "dict" /\ pts[o].row = 2 /\ ~args.return_all)
                      => ValuesOf(labels[o]) = {"PER"}

\* C6 witness: scenario 3 of the specification.
C6_Witness ==
    /\ PredictDone /\ args.multi_label /\ ~args.return_all
    /\ thrIn.kind = "dict"
    /\ Len(pts) = 1 /\ Scored(1) /\ pts[1].row = 2
    /\ Sigmoid(ScoreRows[2][2]) = 599 /\ Sigmoid(ScoreRows[2][3]) = 690
    /\ ValuesOf(labels[1]) = {"PER"}

\* The class of the largest logit of a row (softmax is monotone).
BestClass(row) ==
    LabelDictionary[CHOOSE l \in 1..Len(row) : \A j \in 1..Len(row) : row[j] <= row[l]]

\* C7: in single-label mode without return_probabilities_for_all_classes a
\* label candidate receives at most one label: one with the argmax class and
\* its softmax probability when that class is not "O", none when it is "O".
C7_SingleLabelArgmax ==
    (PredictDone /\ ~args.multi_label /\ ~args.return_all) =>
        \A o \in 1..Len(pts) :
            Scored(o) =>
                LET row == ScoreRows[pts[o].row]
                    best == BestClass(row)
                IN /\ Len(labels[o]) <= 1
                   /\ best = "O" => labels[o] = <<>>
                   /\ best # "O" =>
                         /\ Len(labels[o]) = 1
                         /\ labels[o][1].value = best
                         /\ labels[o][1].score
                               = Softmax(row)[IndexOf(LabelDictionary, best)]

\* C7 witness: one point whose argmax is "O" and stays bare (scenario 5), one
\* whose argmax is PER.
C7_Witness ==
    /\ PredictDone /\ ~args.multi_label /\ ~args.return_all
    /\ Len(pts) = 2 /\ Scored(1) /\ Scored(2)
    /\ BestClass(ScoreRows[pts[1].row]) = "O" /\ labels[1] = <<>>
    /\ BestClass(ScoreRows[pts[2].row]) = "PER" /\ ValuesOf(labels[2]) = {"PER"}

\* --- multi_label_threshold ----------------------------------------------
ThresholdSet == op \in {"construct", "assign"}

\* C5: assigning a dict without the key "default" raises and stores nothing
\* (the mapping stays what it was: none at construction); a dict with
\* "default" is stored as given; a value that is not a dict is stored as
\* {"default": x}; so a stored mapping always has a "default" entry.
C5_ThresholdSetter ==
    /\ ThresholdSet =>
          /\ (thrIn.kind = "dict" /\ "default" \notin DOMAIN thrIn.map)
                => (raised /\ thr = thr0)
          /\ (thrIn.kind = "dict" /\ "default" \in DOMAIN thrIn.map)
                => /\ ~raised
                   /\ thr.set
                   /\ DOMAIN thr.map = DOMAIN thrIn.map
                   /\ \A k \in DOMAIN thrIn.map : thr.map[k] = FloatVal(thrIn.map[k])
          /\ thrIn.kind # "dict"
                => /\ ~raised
                   /\ thr.set
                   /\ DOMAIN thr.map = {"default"}
                   /\ thr.map["default"] = thrIn
          /\ (op = "construct" /\ raised) => ~thr.set
    /\ thr.set => "default" \in DOMAIN thr.map

\* C5 witness: construction with {"LOC": 0.8} failed and left no mapping.
C5_Witness ==
    /\ op = "construct"
    /\ thrIn.kind = "dict" /\ DOMAIN thrIn.map = {"LOC"}
    /\ raised
    /\ ~thr.set

\* --- Model.save -----------------------------------------------------------
SaveReturned == op = "save" /\ ~raised

StateDictKeys == {"optimizer_state_dict", "scheduler_state_dict"}

EvaluateDone == op = "evaluate"

EvaluateReturned == op = "evaluate" /\ ~raised

\* The gold values of point o under the identifier id, as evaluate records
\* them, and the values of its predicted labels under id.
GoldValuesAt(o, id) ==
    {GoldValue(pts[o].gold[j].value, args.gold_label_dictionary) :
        j \in {j \in 1..Len(pts[o].gold) : pts[o].gold[j].identifier = id}}

PredictedValuesAt(o, id) ==
    {labels[o][j].value : j \in {j \in 1..Len(labels[o]) : labels[o][j].identifier = id}}

Identifiers == {<<"s">>, <<"t">>}

\* The ones of an indicator row, as vocabulary items.
OnesOf(row) == {ev.dict[i] : i \in {i \in 1..Len(row) : row[i] = 1}}

OrO(values) == IF values = {} THEN {"O"} ELSE values

SomeLabel ==
    \E o \in 1..Len(pts) : pts[o].gold # <<>> \/ labels[o] # <<>>

\* C1: whenever at least one gold label or one predicted label occurs over
\* all points (even one in total), evaluate computes the metrics from the
\* indicator rows and does not take the all-zero branch.
C1_MetricsOnAnyLabel ==
    (EvaluateReturned /\ SomeLabel) =>
        /\ ev.result.branch = "metrics"
        /\ ev.result = Metrics(ev.y_true, ev.y_pred, ev.target_names, ev.dict)

\* C2: with no gold label on any point and no predicted label attached,
\* evaluate raises nothing and returns all scores 0.0 and an empty report.
C2_ZeroResultWithoutLabels ==
    (EvaluateDone /\ ~SomeLabel) =>
        /\ ~raised
        /\ ev.result.main_score = <<0, 1>>
        /\ ev.result.precision_score = 0
        /\ ev.result.recall_score = 0
        /\ ev.result.micro_f_score = 0
        /\ ev.result.macro_f_score = 0
        /\ ev.result.accuracy_score = 0
        /\ DOMAIN ev.result.classification_report_dict = {}

\* The (point, identifier) pairs that carry a gold or a predicted label.
LabelledPairs ==
    {oi \in (1..Len(pts)) \X Identifiers :
        GoldValuesAt(oi[1], oi[2]) # {} \/ PredictedValuesAt(oi[1], oi[2]) # {}}

\* C9: all_spans holds each composite key of a gold or predicted label once;
\* the gold row of a key has its ones exactly at the vocabulary indices of the
\* gold values of that point and identifier, at "O" alone when there are
\* none, and the predicted row likewise from the predicted values.
C9_IndicatorRows ==
    EvaluateReturned =>
        /\ Range(ev.loop.all_spans) =
              {Representation(oi[1] - 1, oi[2]) : oi \in LabelledPairs}
        /\ \A k, l \in 1..Len(ev.loop.all_spans) :
              ev.loop.all_spans[k] = ev.loop.all_spans[l] => k = l
        /\ Len(ev.y_true) = Len(ev.loop.all_spans)
        /\ Len(ev.y_pred) = Len(ev.loop.all_spans)
        /\ \A o \in 1..Len(pts), id \in Identifiers :
              \A k \in 1..Len(ev.loop.all_spans) :
                  ev.loop.all_spans[k] = Representation(o - 1, id) =>
                      /\ Len(ev.y_true[k]) = Len(ev.dict)
                      /\ Len(ev.y_pred[k]) = Len(ev.dict)
                      /\ OnesOf(ev.y_true[k]) = OrO(GoldValuesAt(o, id))
                      /\ OnesOf(ev.y_pred[k]) = OrO(PredictedValuesAt(o, id))

\* C9 witness: a key with two gold values merged into one row, a key with
\* gold only (scored against "O") and a key with a prediction only.
C9_Witness ==
    /\ EvaluateReturned
    /\ Len(pts) = 2
    /\ \E k \in 1..Len(ev.loop.all_spans) :
          /\ OnesOf(ev.y_true[k]) = {"PER", "LOC"}
          /\ OnesOf(ev.y_pred[k]) = {"PER"}
    /\ \E k \in 1..Len(ev.loop.all_spans) :
          /\ OnesOf(ev.y_true[k]) = {"LOC"}
          /\ OnesOf(ev.y_pred[k]) = {"O"}
    /\ \E k \in 1..Len(ev.loop.all_spans) :
          /\ OnesOf(ev.y_true[k]) = {"O"}
          /\ OnesOf(ev.y_pred[k]) # {"O"}

\* The keys of point o: those that start with str(o - 1) + ': '.
KeyOf(o, key) ==
    LET prefix == Str(o - 1) \o <<":", " ">>
    IN Len(key) >= Len(prefix) /\ SubSeq(key, 1, Len(prefix)) = prefix

\* The rows that are not of point o.
RowsWithout(rows, o) ==
    LET Others(k) == ~KeyOf(o, ev.loop.all_spans[k])
        kept == SelectSeq([k \in 1..Len(rows) |-> k], Others)
    IN [i \in 1..Len(kept) |-> rows[kept[i]]]

Bare(o) == pts[o].gold = <<>> /\ labels[o] = <<>>

\* C10: a point without gold and without predicted labels adds nothing but
\* "O" against "O" to the rows: every row of a key of that point has its ones
\* at "O" alone on both sides, and the true-positive, false-positive and
\* false-negative counts of every other class are those of the rows of the
\* other points.
C10_BarePointScoresNothing ==
    EvaluateReturned =>
        \A o \in 1..Len(pts) :
            Bare(o) =>
                /\ \A k \in 1..Len(ev.loop.all_spans) :
                      KeyOf(o, ev.loop.all_spans[k]) =>
                          OnesOf(ev.y_true[k]) = {"O"} /\ OnesOf(ev.y_pred[k]) = {"O"}
                /\ \A c \in 1..Len(ev.dict) :
                      ev.dict[c] # "O" =>
                          /\ TruePositives(ev.y_true, ev.y_pred, c)
                                = TruePositives(RowsWithout(ev.y_true, o),
                                                RowsWithout(ev.y_pred, o), c)
                          /\ FalsePositives(ev.y_true, ev.y_pred, c)
                                = FalsePositives(RowsWithout(ev.y_true, o),
                                                 RowsWithout(ev.y_pred, o), c)
                          /\ FalseNegatives(ev.y_true, ev.y_pred, c)
                                = FalseNegatives(RowsWithout(ev.y_true, o),
                                                 RowsWithout(ev.y_pred, o), c)

\* C10 witness: a bare point ahead of a point with a true positive.
C10_Witness ==
    /\ EvaluateReturned
    /\ Len(pts) = 2
    /\ Bare(1) /\ pts[1].len > 0 /\ pts[1].row = 1
    /\ ~Bare(2)
    /\ \E c \in 1..Len(ev.dict) :
          ev.dict[c] = "PER" /\ TruePositives(ev.y_true, ev.y_pred, c) = 1
    /\ ev.result.branch = "metrics"

\* --- evaluate: the loss ---------------------------------------------------
\* What predict returns for each batch of the data loader, computed on the
\* batch alone.
BatchReturns ==
    LET batches == Batches(Ids(pts), args.mini_batch_size)
    IN [b \in 1..Len(batches) |->
           predict(batches[b], pts, [o \in 1..Len(pts) |-> <<>>], args).ret]

SummedLoss(returns) == SumSeq([b \in 1..Len(returns) |-> returns[b].loss])

SummedCount(returns) == SumSeq([b \in 1..Len(returns) |-> returns[b].count])

\* The sums over all batches: <<loss, count>>.
Summed == With(BatchReturns, LAMBDA r : <<SummedLoss(r), SummedCount(r)>>)

\* C11: the loss of the Result evaluate returns is the sum over the batches
\* of the loss predict returned divided by the sum over the batches of the
\* label count predict returned when that sum is positive, and the summed
\* loss itself when the sum is zero.
C11_MeanLoss ==
    EvaluateReturned =>
        \A sums \in {Summed} :
            IF sums[2] > 0
            THEN ev.loss[1] * sums[2] = sums[1] * ev.loss[2]
            ELSE ev.loss[1] = sums[1] * ev.loss[2]

\* C11 witness: two batches, each with a counted label and a positive loss.
C11_Witness ==
    /\ EvaluateReturned
    /\ \E r \in {BatchReturns} :
          /\ Len(r) = 2
          /\ \A b \in 1..2 : r[b].count > 0 /\ r[b].loss > 0
          /\ ev.loss = <<SummedLoss(r), SummedCount(r)>>

\* --- predict: the order of the forward passes ----------------------------
\* The objects of the caller's list that have tokens.
Kept == {o \in 1..Len(pts) : pts[o].len > 0}

\* The points forward_pass saw, in the order it saw them.
Forwarded == Concat(passes)

\* C12: predict drops the zero-length points and runs forward_pass over the
\* others in descending order of length, points of one length in the order
\* of the caller's list; each of them is in exactly one batch and no batch
\* holds more than mini_batch_size points.
C12_SortedBatches ==
    PredictDone =>
        \A f \in {Forwarded} :
            /\ Range(f) = Kept
            /\ Len(f) = Cardinality(Kept)
            /\ \A i, j \in 1..Len(f) :
                  i < j => /\ pts[f[i]].len >= pts[f[j]].len
                           /\ pts[f[i]].len = pts[f[j]].len => f[i] < f[j]
            /\ \A b \in 1..Len(passes) :
                  Len(passes[b]) \in 1..args.mini_batch_size

\* C12 witness: the last point of the list is longer than the first and is
\* passed on first, in batches of one.
C12_Witness ==
    /\ PredictDone
    /\ Len(pts) = NPoints
    /\ 0 < pts[1].len /\ pts[1].len < pts[NPoints].len
    /\ args.mini_batch_size = 1
    /\ Len(passes) = Cardinality(Kept)
    /\ passes[1] = <<NPoints>>

\* --- evaluate: the printout ------------------------------------------------
\* The batches of evaluate's data loader.
EvalBatches == Batches(Ids(pts), args.mini_batch_size)

\* The batch the data point o is in.
BatchOf(o) == CHOOSE b \in 1..Len(EvalBatches) : o \in Range(EvalBatches[b])

\* Some gold label of batch b is span-typed.
SpanGoldIn(b) ==
    \E o \in Range(EvalBatches[b]) :
        \E j \in 1..Len(pts[o].gold) : pts[o].gold[j].span

\* Every data point is rendered once, in the order of the list.
RenderedInOrder ==
    /\ Len(ev.loop.lines) = Len(pts)
    /\ \A k \in 1..Len(pts) : ev.loop.lines[k].point = k

\* C13 as stated: with out_path set, the points of a batch are rendered at
\* word level exactly when some gold label of that batch is span-typed,
\* whatever the earlier batches held.
C13_RenderingPerBatch ==
    (EvaluateReturned /\ args.out_path) =>
        /\ RenderedInOrder
        /\ \A k \in 1..Len(pts) :
              ev.loop.lines[k].word_level <=> SpanGoldIn(BatchOf(k))

\* C13 as amended: with out_path set, the points of a batch are rendered at
\* word level exactly when some gold label of that batch or of an earlier
\* batch of the call is span-typed; once a span-typed gold label has been
\* read, every later batch is rendered at word level.
C13_RenderingSwitches ==
    (EvaluateReturned /\ args.out_path) =>
        /\ RenderedInOrder
        /\ \A k \in 1..Len(pts) :
              ev.loop.lines[k].word_level
                  <=> \E b \in 1..BatchOf(k) : SpanGoldIn(b)

\* C13 witness: the first batch holds a span-typed gold label, the second
\* holds a point without any label and is rendered at word level all the same.
C13_Witness ==
    /\ EvaluateReturned /\ args.out_path
    /\ Len(EvalBatches) = 2
    /\ SpanGoldIn(1) /\ ~SpanGoldIn(2)
    /\ pts[Len(pts)].gold = <<>> /\ labels[Len(pts)] = <<>>
    /\ ev.loop.lines[Len(pts)].word_level

\* --- evaluate: the composite key -------------------------------------------
\* C14: labels of two distinct data points of one call never get the same
\* composite key, whatever their identifiers are, identifiers holding
\* digits, ':' or spaces included.
C14_KeyInjective ==
    op = "keys" => ev.representation[1] # ev.representation[2]

\* C14 witness: the identifier of the first label starts with the digit that
\* the second point's sentence_id ends with, so that the two keys hold the
\* same characters up to the separator.
C14_Witness ==
    /\ op = "keys"
    /\ args.sentence_id = <<1, 10>>
    /\ args.identifier = << <<"0", "s">>, <<"s">> >>
    /\ ev.representation[1] = <<"1", ":", " ", "0", "s">>
    /\ ev.representation[2] = <<"1", "0", ":", " ", "s">>

\* --- predict: labels of an earlier prediction ------------------------------
\* The labels this call attaches to the object o.
AttachedByCall(o) ==
    IF Scored(o) THEN SpawnedLabels(args, ScoreRows[pts[o].row], pts[o].cand_id)
    ELSE <<>>

\* C15: after predict returns, every label stored under label_name on a point
\* of the input list was attached by this call; the labels of that name the
\* points carried before are gone from every point, points of zero length
\* included.
C15_OnlyNewLabels ==
    PredictDone => \A o \in 1..Len(pts) : labels[o] = AttachedByCall(o)

\* --- Model.save: a failing write --------------------------------------------
SaveRaised == op = "save" /\ raised

\* The entries of the card that referenced a live object before the call.
LiveBefore == {k \in DOMAIN card0.tp : card0.tp[k].kind = "object"}

\* C16: when save raises because the model file cannot be written, the
\* 'optimizer' and 'scheduler' entries of the model card still reference the
\* live objects they referenced before the call, not their classes.
C16_FailedWriteKeepsLive ==
    SaveRaised => \A k \in LiveBefore : card.tp[k] = card0.tp[k]

====
